---- MODULE Spec2Model ----
(***************************************************************************)
(* Model of src/src/api/ollama.rs: the OllamaClient response-contract      *)
(* layer.  Texts are sequences of one-character strings; the string        *)
(* functions of the Rust standard library that the code calls (lines,      *)
(* trim, split, to_lowercase, contains, parse::<f64>, join, clamp) are     *)
(* operators computed character by character.                              *)
(***************************************************************************)
EXTENDS Integers, Sequences, FiniteSets, TLC

(***************************************************************************)
(* Characters and texts                                                    *)
(***************************************************************************)
NL == "\n"
CR == "\r"
SP == " "

Whitespace == {SP, NL, CR, "\t"}

UpperChars == <<"A","B","C","D","E","F","G","H","I","J","K","L","M",
                "N","O","P","Q","R","S","T","U","V","W","X","Y","Z">>
LowerChars == <<"a","b","c","d","e","f","g","h","i","j","k","l","m",
                "n","o","p","q","r","s","t","u","v","w","x","y","z">>
DigitChars == <<"0","1","2","3","4","5","6","7","8","9">>

\* char::to_lowercase on the characters of the model's alphabet
LowerChar(c) ==
    IF \E i \in 1..Len(UpperChars) : UpperChars[i] = c
    THEN LowerChars[CHOOSE i \in 1..Len(UpperChars) : UpperChars[i] = c]
    ELSE c

\* str::to_lowercase
to_lowercase(s) == [i \in 1..Len(s) |-> LowerChar(s[i])]

IsDigit(c) == \E i \in 1..Len(DigitChars) : DigitChars[i] = c
DigitVal(c) == (CHOOSE i \in 1..Len(DigitChars) : DigitChars[i] = c) - 1

\* whether pat occurs in s at position i
MatchAt(s, pat, i) ==
    /\ i >= 1
    /\ i + Len(pat) - 1 <= Len(s)
    /\ \A k \in 1..Len(pat) : s[i + k - 1] = pat[k]

\* str::find: position of the first occurrence of pat in s, 0 when none
Find(s, pat) ==
    LET hits == {i \in 1..(Len(s) - Len(pat) + 1) : MatchAt(s, pat, i)}
    IN  IF hits = {} THEN 0 ELSE CHOOSE i \in hits : \A j \in hits : i <= j

\* str::contains
contains(s, pat) == Find(s, pat) # 0

\* str::split(pat): the pieces between the non-overlapping occurrences of
\* pat, found left to right; n occurrences give n + 1 pieces
RECURSIVE split(_, _)
split(s, pat) ==
    LET i == Find(s, pat)
    IN  IF i = 0 THEN <<s>>
        ELSE <<SubSeq(s, 1, i - 1)>> \o split(SubSeq(s, i + Len(pat), Len(s)), pat)

\* Iterator::nth on a sequence of pieces: an Option
nth(pieces, n) ==
    IF n + 1 <= Len(pieces) THEN [some |-> TRUE, v |-> pieces[n + 1]]
    ELSE [some |-> FALSE, v |-> <<>>]

\* str::lines: split at "\n"; a line ended by "\n" loses one "\r" before it;
\* a final line ending produces no further (empty) line
lines(s) ==
    LET pieces == split(s, <<NL>>)
        n      == Len(pieces)
        kept   == IF pieces[n] = <<>> THEN n - 1 ELSE n
        strip(p) == IF Len(p) > 0 /\ p[Len(p)] = CR
                    THEN SubSeq(p, 1, Len(p) - 1) ELSE p
    IN  [i \in 1..kept |-> IF i < n THEN strip(pieces[i]) ELSE pieces[i]]

\* str::trim: strip leading and trailing whitespace
trim(s) ==
    LET idx == {i \in 1..Len(s) : s[i] \notin Whitespace}
    IN  IF idx = {} THEN <<>>
        ELSE LET lo == CHOOSE i \in idx : \A j \in idx : i <= j
                 hi == CHOOSE i \in idx : \A j \in idx : j <= i
             IN  SubSeq(s, lo, hi)

\* [T]::join(sep)
RECURSIVE join(_, _)
join(ls, sep) ==
    IF Len(ls) = 0 THEN <<>>
    ELSE IF Len(ls) = 1 THEN ls[1]
    ELSE ls[1] \o sep \o join(Tail(ls), sep)

\* usize Display (format!("{}", n))
RECURSIVE usize_to_string(_)
usize_to_string(n) ==
    IF n < 10 THEN <<DigitChars[n + 1]>>
    ELSE usize_to_string(n \div 10) \o <<DigitChars[(n % 10) + 1]>>

(***************************************************************************)
(* f64: a finite value is the exact decimal m / 10^e (normalised), besides *)
(* NaN and the two infinities                                              *)
(***************************************************************************)
RECURSIVE Pow10(_)
Pow10(n) == IF n <= 0 THEN 1 ELSE 10 * Pow10(n - 1)

RECURSIVE Normal(_, _)
Normal(m, e) ==
    IF m = 0 THEN [k |-> "fin", m |-> 0, e |-> 0]
    ELSE IF e < 0 THEN [k |-> "fin", m |-> m * Pow10(0 - e), e |-> 0]
    ELSE IF e > 0 /\ m % 10 = 0 THEN Normal(m \div 10, e - 1)
    ELSE [k |-> "fin", m |-> m, e |-> e]

F64NaN    == [k |-> "nan", m |-> 0, e |-> 0]
F64Inf    == [k |-> "inf", m |-> 1, e |-> 0]
F64NegInf == [k |-> "inf", m |-> -1, e |-> 0]
F64Zero   == Normal(0, 0)
F64One    == Normal(1, 0)
F64Half   == Normal(5, 1)

\* a < b on f64 (false when either is NaN)
F64Lt(a, b) ==
    IF a.k = "nan" \/ b.k = "nan" THEN FALSE
    ELSE IF a.k = "inf" THEN a.m < 0 /\ ~(b.k = "inf" /\ b.m < 0)
    ELSE IF b.k = "inf" THEN b.m > 0
    ELSE a.m * Pow10(b.e) < b.m * Pow10(a.e)

\* f64::clamp(min, max): NaN stays NaN
f64_clamp(x, min, max) ==
    IF F64Lt(x, min) THEN min
    ELSE IF F64Lt(max, x) THEN max
    ELSE x

RECURSIVE DigitsVal(_)
DigitsVal(ds) ==
    IF Len(ds) = 0 THEN 0
    ELSE 10 * DigitsVal(SubSeq(ds, 1, Len(ds) - 1)) + DigitVal(ds[Len(ds)])

AllDigits(s) == \A i \in 1..Len(s) : IsDigit(s[i])

ParseNone == [ok |-> FALSE, v |-> F64NaN]

\* str::parse::<f64> (core::num::dec2flt): [sign] then inf | infinity | nan
\* (any case), or digits [. digits] [e|E [sign] digits] with at least one
\* mantissa digit; no surrounding whitespace is accepted
parse_f64(s) ==
    LET signed == Len(s) > 0 /\ s[1] \in {"+", "-"}
        neg    == Len(s) > 0 /\ s[1] = "-"
        body   == IF signed THEN Tail(s) ELSE s
        low    == to_lowercase(body)
        epos   == Find(low, <<"e">>)
        mant   == IF epos = 0 THEN body ELSE SubSeq(body, 1, epos - 1)
        expo   == IF epos = 0 THEN <<>> ELSE SubSeq(body, epos + 1, Len(body))
        esign  == Len(expo) > 0 /\ expo[1] \in {"+", "-"}
        edigs  == IF esign THEN Tail(expo) ELSE expo
        dot    == Find(mant, <<".">>)
        ipart  == IF dot = 0 THEN mant ELSE SubSeq(mant, 1, dot - 1)
        fpart  == IF dot = 0 THEN <<>> ELSE SubSeq(mant, dot + 1, Len(mant))
        mval   == DigitsVal(ipart \o fpart)
        eval   == IF epos = 0 THEN 0
                  ELSE IF esign /\ expo[1] = "-" THEN 0 - DigitsVal(edigs)
                  ELSE DigitsVal(edigs)
    IN  IF low \in {<<"i","n","f">>, <<"i","n","f","i","n","i","t","y">>}
        THEN [ok |-> TRUE, v |-> IF neg THEN F64NegInf ELSE F64Inf]
        ELSE IF low = <<"n","a","n">> THEN [ok |-> TRUE, v |-> F64NaN]
        ELSE IF /\ AllDigits(ipart) /\ AllDigits(fpart)
                /\ Len(ipart) + Len(fpart) > 0
                /\ (epos # 0 => Len(edigs) > 0 /\ AllDigits(edigs))
        THEN [ok |-> TRUE,
              v  |-> Normal(IF neg THEN 0 - mval ELSE mval, Len(fpart) - eval)]
        ELSE ParseNone

(***************************************************************************)
(* Results: Result<(String, f64, Vec<String>), Box<dyn Error>>             *)
(***************************************************************************)
Ok3(t, r, f) == [ok |-> TRUE, err |-> "", thought |-> t, relevance |-> r,
                 factors |-> f]
Err3(msg)    == [ok |-> FALSE, err |-> msg, thought |-> <<>>,
                 relevance |-> F64NaN, factors |-> <<>>]
NoResult     == [ok |-> FALSE, err |-> "pending", thought |-> <<>>,
                 relevance |-> F64NaN, factors |-> <<>>]

\* the outcome of OllamaClient::generate: the completion, or a transport error
TransportErr   == [ok |-> FALSE, body |-> <<>>]
Completion(c)  == [ok |-> TRUE, body |-> c]

(***************************************************************************)
(* Content validator                                                       *)
(***************************************************************************)
prohibited_terms ==
    << <<"e","n","e","r","g","y"," ","l","e","v","e","l">>,
       <<"e","v","o","l","u","t","i","o","n"," ","s","t","a","g","e">>,
       <<"d","i","m","e","n","s","i","o","n","a","l"," ",
         "p","o","s","i","t","i","o","n">>,
       <<"e","m","e","r","g","e","n","c","e",":">>,
       <<"c","o","h","e","r","e","n","c","e",":">>,
       <<"r","e","s","i","l","i","e","n","c","e",":">>,
       <<"i","n","t","e","l","l","i","g","e","n","c","e",":">>,
       <<"e","f","f","i","c","i","e","n","c","y",":">>,
       <<"i","n","t","e","g","r","a","t","i","o","n",":">> >>

validate_thought_content_nocase(thought) ==
    ~ \E i \in 1..Len(prohibited_terms) :
          contains(thought, prohibited_terms[i])

validate_thought_content(thought) ==
    ~ \E i \in 1..Len(prohibited_terms) :
          contains(to_lowercase(thought), to_lowercase(prohibited_terms[i]))

clean_thought_content_keep(thought) == thought

clean_thought_content_nonempty(thought) ==
    join(SelectSeq(lines(thought),
                   LAMBDA l : l # <<>> /\ validate_thought_content(l)),
         <<NL>>)

clean_thought_content(thought) ==
    join(SelectSeq(lines(thought), validate_thought_content), <<NL>>)

(***************************************************************************)
(* generate_thought_internal: the labels of its format and its parser      *)
(***************************************************************************)
L_THOUGHT   == <<"T","H","O","U","G","H","T",":">>
L_RELEVANCE == <<"R","E","L","E","V","A","N","C","E",":">>
L_FACTORS   == <<"F","A","C","T","O","R","S",":">>

\* the response layout the prompt prescribes: THOUGHT: on its own line, the
\* thought, RELEVANCE: on its own line, the score on the next line, and
\* FACTORS: with one factor per line
PromptFormat(thought, score, factors) ==
    join(<<L_THOUGHT, thought, L_RELEVANCE, score, L_FACTORS>> \o factors,
         <<NL>>)

NonBlank(l) == trim(l) # <<>>

\* rest.split("FACTORS:").nth(1).map(non-blank lines, trimmed).unwrap_or_default()
parse_factors(rest) ==
    LET f == nth(split(rest, L_FACTORS), 1)
    IN  IF ~f.some THEN <<>>
        ELSE LET ls == SelectSeq(lines(f.v), NonBlank)
             IN  [i \in 1..Len(ls) |-> trim(ls[i])]

\* rest.lines().next().and_then(|s| s.trim().parse().ok())
parse_relevance(rest) ==
    LET ls == lines(rest)
    IN  IF Len(ls) = 0 THEN ParseNone ELSE parse_f64(trim(ls[1]))

\* gen is the outcome of self.generate(&prompt).await
generate_thought_internal(gen) ==
    IF ~gen.ok THEN Err3("transport")
    ELSE
    LET after == nth(split(gen.body, L_THOUGHT), 1)
    IN  IF ~after.some THEN Err3("Invalid response")
        ELSE
        LET sections == split(after.v, L_RELEVANCE)
            thought  == trim(sections[1])
            rest     == nth(sections, 1)
        IN  IF ~rest.some THEN Err3("Missing relevance")
            ELSE
            LET relevance == parse_relevance(rest.v)
            IN  IF ~relevance.ok THEN Err3("Invalid relevance score")
                ELSE Ok3(thought, relevance.v, parse_factors(rest.v))

(***************************************************************************)
(* create_plan and its helpers                                             *)
(***************************************************************************)
L_SUMMARY == <<"S","U","M","M","A","R","Y",":">>
L_NODES   == <<"N","O","D","E","S",":">>
L_SCORE   == <<"S","C","O","R","E",":">>

\* line 343
DefaultSummary ==
    <<"P","l","a","n",SP,"b","a","s","e","d",SP,"o","n",SP,"c","o","l",
    "l","e","c","t","e","d",SP,"t","h","o","u","g","h","t","s">>

\* a PlanNode as lines 434-441 build it; its id is a fresh Uuid, which no
\* operation reads, and is left out
PlanNode(title, description, completion) ==
    [title |-> title, description |-> description, status |-> "Pending",
     estimated_completion |-> completion, dependencies |-> <<>>]

NoNode == [some |-> FALSE,
           v |-> PlanNode(<<>>, <<>>, F64Zero)]

\* parts[2].trim().parse().unwrap_or(0.0)
parse_completion(part) ==
    IF parse_f64(trim(part)).ok THEN parse_f64(trim(part)).v ELSE F64Zero

\* lines 428-444, on the parts of the line
plan_node_from_parts(parts) ==
    IF Len(parts) >= 3 /\ trim(parts[1]) # <<>> /\ trim(parts[2]) # <<>>
    THEN [some |-> TRUE,
          v |-> PlanNode(trim(parts[1]), trim(parts[2]),
                         f64_clamp(parse_completion(parts[3]),
                                   F64Zero, F64One))]
    ELSE NoNode

parse_plan_node(line) == plan_node_from_parts(split(line, <<"|">>))

generate_default_nodes(summary) ==
    << PlanNode(<<"I","n","i","t","i","a","l",SP,"A","n","a","l","y","s","i","s">>,
                <<"A","n","a","l","y","z","e",SP,"c","u","r","r","e","n","t",SP,"s",
                "t","a","t","e",SP,"a","n","d",SP,"r","e","q","u","i","r","e",
                "m","e","n","t","s",SP,"f","o","r",":",SP>>
                \o summary, F64Zero),
       PlanNode(<<"I","m","p","l","e","m","e","n","t","a","t","i","o","n",SP,"S","t",
                "r","a","t","e","g","y">>,
                <<"D","e","v","e","l","o","p",SP,"d","e","t","a","i","l","e","d",SP,
                "i","m","p","l","e","m","e","n","t","a","t","i","o","n",SP,"a",
                "p","p","r","o","a","c","h",SP,"b","a","s","e","d",SP,"o","n",
                SP,"i","n","i","t","i","a","l",SP,"a","n","a","l","y","s","i",
                "s">>,
                F64Zero),
       PlanNode(<<"V","a","l","i","d","a","t","i","o","n",SP,"a","n","d",SP,"R","e",
                "v","i","e","w">>,
                <<"R","e","v","i","e","w",SP,"i","m","p","l","e","m","e","n","t","a",
                "t","i","o","n",SP,"r","e","s","u","l","t","s",SP,"a","n","d",
                SP,"v","a","l","i","d","a","t","e",SP,"a","g","a","i","n","s",
                "t",SP,"o","b","j","e","c","t","i","v","e","s">>,
                F64Zero) >>

create_default_node(index) ==
    PlanNode(<<"P","h","a","s","e",SP>> \o usize_to_string(index),
             <<"E","x","e","c","u","t","e",SP,"p","h","a","s","e",SP>> \o usize_to_string(index)
             \o <<SP,"o","f",SP,"t","h","e",SP,"p","l","a","n">>,
             F64Zero)

\* while nodes.len() < 3 { nodes.push(create_default_node(nodes.len() + 1)) }
RECURSIVE pad_nodes_to(_, _)
pad_nodes_to(nodes, n) ==
    IF Len(nodes) < n
    THEN pad_nodes_to(Append(nodes, create_default_node(Len(nodes) + 1)), n)
    ELSE nodes

pad_nodes_short(nodes) == pad_nodes_to(nodes, 2)

pad_nodes(nodes) == pad_nodes_to(nodes, 3)

\* the locals of the section scan, as initialised in lines 343-347
ScanInit == [section |-> "", summary |-> DefaultSummary, nodes |-> <<>>,
             score |-> F64Half]

push_node(acc, node) ==
    IF node.some THEN [acc EXCEPT !.nodes = Append(acc.nodes, node.v)] ELSE acc

set_score_or_zero(acc, parsed) ==
    [acc EXCEPT !.score = IF parsed.ok THEN parsed.v ELSE F64Zero]

\* if let Ok(s) = line.trim().parse() { score = s; }
set_score(acc, parsed) ==
    IF parsed.ok THEN [acc EXCEPT !.score = parsed.v] ELSE acc

scan_line_first(acc, t) ==
    IF t = L_SUMMARY THEN [acc EXCEPT !.section = "summary"]
    ELSE IF t = L_NODES THEN [acc EXCEPT !.section = "nodes"]
    ELSE IF t = L_SCORE THEN [acc EXCEPT !.section = "score"]
    ELSE IF t = <<>> THEN acc
    ELSE IF acc.section = "summary"
         THEN (IF acc.summary = DefaultSummary
               THEN [acc EXCEPT !.summary = t] ELSE acc)
    ELSE IF acc.section = "nodes" THEN push_node(acc, parse_plan_node(t))
    ELSE IF acc.section = "score"
         THEN (IF acc.score = F64Half
               THEN set_score(acc, parse_f64(trim(t))) ELSE acc)
    ELSE acc

\* the body of the scan loop (lines 349-374) for one line, t = line.trim()
scan_line(acc, t) ==
    IF t = L_SUMMARY THEN [acc EXCEPT !.section = "summary"]
    ELSE IF t = L_NODES THEN [acc EXCEPT !.section = "nodes"]
    ELSE IF t = L_SCORE THEN [acc EXCEPT !.section = "score"]
    ELSE IF t = <<>> THEN acc
    ELSE IF acc.section = "summary" THEN [acc EXCEPT !.summary = t]
    ELSE IF acc.section = "nodes" THEN push_node(acc, parse_plan_node(t))
    ELSE IF acc.section = "score" THEN set_score(acc, parse_f64(trim(t)))
    ELSE acc

\* for line in response.lines() { ... }
RECURSIVE scan_lines(_, _)
scan_lines(acc, ls) ==
    IF Len(ls) = 0 THEN acc
    ELSE scan_lines(scan_line(acc, trim(ls[1])), Tail(ls))

use_nodes_or_default(nodes, summary) ==
    IF Len(nodes) = 0 THEN generate_default_nodes(summary) ELSE nodes

\* lines 377-396: default nodes, padding, and the Plan (without its fresh id
\* and its creation time)
build_plan(acc, thoughts) ==
    [summary |-> acc.summary,
     nodes |-> pad_nodes(use_nodes_or_default(acc.nodes, acc.summary)),
     thoughts |-> thoughts,
     score |-> acc.score,
     participating_cells |-> <<>>,
     status |-> "Proposed"]

NoPlan == [summary |-> <<>>, nodes |-> <<>>, thoughts |-> <<>>,
           score |-> F64NaN, participating_cells |-> <<>>, status |-> ""]

NoPlanResult == [ok |-> FALSE, err |-> "pending", plan |-> NoPlan]

\* gen is the outcome of self.generate(&prompt).await
create_plan(gen, thoughts) ==
    IF ~gen.ok THEN [ok |-> FALSE, err |-> "transport", plan |-> NoPlan]
    ELSE [ok |-> TRUE, err |-> "",
          plan |-> build_plan(scan_lines(ScanInit, lines(gen.body)), thoughts)]

(***************************************************************************)
(* The completions the model endpoint may return to a thought prompt       *)
(***************************************************************************)
MaxThoughtLines == 2

W_ok     == <<"o","k">>
W_energy == <<"E","n","e","r","g","y"," ","L","e","v","e","l">>
W_coh    == <<"a"," ","C","o","h","e","r","e","n","c","e",":","1">>
W_near   == <<"e","n","e","r","g","y","l","e","v","e","l"," ",
              "c","o","h","e","r","e","n","c","e">>
W_half   == <<"0",".","5">>
W_high   == <<"1",".","5">>
W_neg    == <<"-","0",".","3">>
W_word   == <<"l","o","w">>
W_f1     == <<"f","1">>
W_f2     == <<"f","2">>

\* all sequences over S of length 0..n
RECURSIVE SeqsUpTo(_, _)
SeqsUpTo(S, n) ==
    IF n = 0 THEN {<<>>}
    ELSE LET shorter == SeqsUpTo(S, n - 1)
         IN  shorter \cup {Append(q, x) : q \in shorter, x \in S}

ThoughtLineVocab == {W_ok, W_energy}

\* thought bodies: up to MaxThoughtLines lines, besides a "\r\n" body, a
\* colon term inside a line, and a near miss of two terms
ThoughtBodies ==
    {join(ls, <<NL>>) : ls \in SeqsUpTo(ThoughtLineVocab, MaxThoughtLines)}
    \cup {W_ok \o <<CR, NL>> \o W_energy \o <<CR, NL>> \o W_ok, W_coh, W_near}

RelevanceTexts == {W_half, W_high, W_neg, W_word, <<>>}

ThoughtCompletions ==
    \* label and score on one line, factors with a blank line and padding
    {L_THOUGHT \o <<NL>> \o b \o <<NL>> \o L_RELEVANCE \o <<SP>> \o W_half
       \o <<NL>> \o L_FACTORS \o <<NL>> \o W_f1 \o <<NL, NL, SP>> \o W_f2
       \o <<SP>> : b \in ThoughtBodies}
    \* the relevance text varies, no FACTORS: section
    \cup {L_THOUGHT \o <<SP>> \o b \o <<SP>> \o L_RELEVANCE \o r :
             b \in {W_ok, W_energy}, r \in RelevanceTexts}
    \* laid out as the prompt prescribes
    \cup {PromptFormat(b, W_half, f) :
             b \in {W_ok, W_energy}, f \in {<<>>, <<W_f1, W_f2>>}}
    \cup {L_THOUGHT \o <<NL>> \o W_ok \o <<NL>> \o L_RELEVANCE \o <<NL>>
             \o W_half}
    \* no label, no RELEVANCE:, labels in the wrong order, THOUGHT: twice
    \cup {<<>>, W_ok, L_THOUGHT \o W_ok,
          L_RELEVANCE \o W_half \o <<NL>> \o L_THOUGHT \o W_ok,
          L_THOUGHT \o W_ok \o L_THOUGHT \o W_energy \o L_RELEVANCE \o W_half}

(***************************************************************************)
(* The completions the model endpoint may return to a plan prompt: an      *)
(* optional SUMMARY: section, an optional NODES: section and an optional   *)
(* SCORE: section, each a label line and body lines, besides completions   *)
(* with lines before the first label and with sections out of order or     *)
(* repeated                                                                *)
(***************************************************************************)
MaxNodeLines == 3

S_a       == <<"p","l","a","n",SP,"A">>
S_b       == <<"t","h","e","n",SP,"B">>
S_blank   == <<SP, SP>>
N_ok      == <<"1",".",SP,"A",SP,"|",SP,"d","o",SP,"|",SP,"0",".","5">>
N_high    == <<"B","|","g","o","|","1",".","5">>
N_neg     == <<SP,"C",SP,"|",SP,"x",SP,"|","-","0",".","3">>
N_soon    == <<"D","|","y","|","s","o","o","n">>
N_four    == <<"E","|","z","|","0",".","2","|","m","o","r","e">>
N_nan     == <<"H","|","n","|","N","a","N">>
N_two     == <<"F","|","w">>
N_notitle == <<SP,"|","d","|","0",".","5">>
N_nodesc  == <<"G","|",SP,"|","0",".","5">>
V_07      == <<"0",".","7">>
V_025     == <<SP,"0",".","2","5",SP>>
V_high    == <<"1",".","5">>
V_neg     == <<"-","0",".","3">>
V_word    == <<"h","i","g","h">>

Block(label, body) == [label |-> label, body |-> body]

SummaryBlocks ==
    {Block(L_SUMMARY, b) : b \in {<<>>, <<S_a>>, <<<<>>, S_a, S_b>>, <<S_blank>>}}

NodesBlocks ==
    {Block(L_NODES, b) : b \in SeqsUpTo({N_ok, N_high}, MaxNodeLines)}
    \cup {Block(L_NODES, b) :
             b \in {<<N_two, N_ok, N_notitle>>, <<N_neg, <<>>, N_soon>>,
                    <<N_nodesc>>, <<N_four, N_nan, N_ok, N_high, N_neg>>}}

ScoreBlocks ==
    {Block(<<SP>> \o L_SCORE \o <<SP>>, b) :
        b \in {<<>>, <<V_07>>, <<V_high>>, <<V_neg>>, <<V_word>>,
               <<V_07, V_word>>, <<V_025>>}}

Opt(blocks) == {<<>>} \cup {<<b>> : b \in blocks}

\* a completion is some lines before the first label, then sections
Script(pre, blocks) == [pre |-> pre, blocks |-> blocks]
NoScript == Script(<<>>, <<>>)

\* completions that repeat sections and put foreign lines into a section
RepeatScripts ==
    {Script(<<>>, <<Block(L_SUMMARY, s1), Block(L_SCORE, c1),
                    Block(L_SUMMARY, s2), Block(L_SCORE, c2)>>) :
        s1 \in {<<>>, <<S_a>>}, c1 \in {<<V_07>>, <<V_word>>},
        s2 \in {<<>>, <<S_b>>, <<S_blank>>},
        c2 \in {<<>>, <<V_025>>, <<V_word>>}}
    \cup {Script(<<>>, <<Block(L_SUMMARY, <<S_a>>), Block(L_SCORE, <<V_07, V_025>>),
                         Block(L_SUMMARY, <<S_b, S_blank>>),
                         Block(L_SCORE, <<V_word>>), Block(L_NODES, <<N_ok>>),
                         Block(L_SUMMARY, <<>>), Block(L_NODES, <<N_high>>)>>),
          Script(<<>>, <<Block(L_SUMMARY, <<S_a, N_ok, V_07>>),
                         Block(L_SCORE, <<V_high, S_a, N_ok>>)>>),
          Script(<<S_b, V_07>>, <<Block(L_SUMMARY, <<S_a, S_b>>),
                                  Block(L_SCORE, <<V_07>>),
                                  Block(L_SUMMARY, <<V_025>>)>>)}

PlanScripts ==
    RepeatScripts \cup
    {Script(<<>>, s \o n \o c) :
        s \in Opt(SummaryBlocks), n \in Opt(NodesBlocks), c \in Opt(ScoreBlocks)}
    \cup {Script(<<S_a, N_ok, V_07>>, <<Block(L_NODES, <<N_ok>>)>>),
          Script(<<>>, <<Block(L_SCORE, <<V_07>>), Block(L_NODES, <<N_ok, N_high>>),
                         Block(L_SUMMARY, <<S_b>>), Block(L_NODES, <<N_neg>>),
                         Block(L_SCORE, <<V_word>>), Block(L_SUMMARY, <<>>)>>)}

RECURSIVE ScriptLines(_)
ScriptLines(blocks) ==
    IF Len(blocks) = 0 THEN <<>>
    ELSE <<blocks[1].label>> \o blocks[1].body \o ScriptLines(Tail(blocks))

\* the text of the completion
Render(script) == join(script.pre \o ScriptLines(script.blocks), <<NL>>)

\* the thoughts a caller passes to create_plan
Thought(content, relevance, factors) ==
    [content |-> content, relevance |-> relevance, factors |-> factors]
InputThoughts ==
    {<<>>, <<Thought(W_ok, F64Half, <<W_f1>>)>>,
     <<Thought(W_ok, F64Half, <<W_f1>>), Thought(S_a, F64One, <<>>)>>}

(***************************************************************************)
(* evaluate_dimensional_state: its parser and the completions it may get   *)
(***************************************************************************)
\* .filter_map(|s| s.trim().parse().ok()).collect()
RECURSIVE parse_values(_)
parse_values(pieces) ==
    IF Len(pieces) = 0 THEN <<>>
    ELSE (IF parse_f64(trim(pieces[1])).ok
          THEN <<parse_f64(trim(pieces[1])).v>> ELSE <<>>)
         \o parse_values(Tail(pieces))

values_len_ok_atleast(n) == n >= 2

\* line 160: values.len() != 2 is the error
values_len_ok(n) == n = 2

DimErr(msg) == [ok |-> FALSE, err |-> msg, values |-> <<>>]

\* lines 160-164 on the parsed values
dim_result(values) ==
    IF ~values_len_ok(Len(values))
    THEN DimErr("Invalid response format from model")
    ELSE [ok |-> TRUE, err |-> "", values |-> <<values[1], values[2]>>]

\* gen is the outcome of self.generate(&prompt).await
evaluate_dimensional_state(gen) ==
    IF ~gen.ok THEN DimErr("transport")
    ELSE dim_result(parse_values(split(gen.body, <<",">>)))

MaxTokens == 3

D_half  == <<"0",".","5">>
D_neg   == <<SP, NL>> \o <<"-","0",".","2",SP>>
D_exp   == <<"1","e","1">>
D_word  == <<"a">>
D_pair  == <<"0",".","5",SP,"0",".","2">>
D_empty == <<>>

DimTokens == {D_half, D_neg, D_exp, D_word, D_pair, D_empty}

\* a completion is tokens separated by commas
DimScripts == SeqsUpTo(DimTokens, MaxTokens)

DimInit == [tokens |-> <<>>, answered |-> FALSE, out |-> DimErr("pending")]

(***************************************************************************)
(* The texts given to the content validator                                *)
(***************************************************************************)
MaxCleanLines == 2

B_energy == <<"E","n","e","r","g","y",SP,"L","e","v","e","l",SP,"i","s",SP,"h","i","g","h">>
B_evol   == <<"E","V","O","L","U","T","I","O","N",SP,"S","T","A","G","E">>
B_dim    == <<"D","i","m","e","n","s","i","o","n","a","l",SP,"P","o","s","i","t","i","o","n">>
B_emerg  == <<"e","m","e","r","g","e","n","c","e",":",SP,"0",".","8">>
B_coh    == <<"C","o","h","e","r","e","n","c","e",":","1">>
B_resil  == <<"R","E","S","I","L","I","E","N","C","E",":">>
B_intel  == <<"I","n","t","e","l","l","i","g","e","n","c","e",":">>
B_effic  == <<"e","f","f","i","c","i","e","n","c","y",":">>
B_integ  == <<"I","n","t","e","g","r","a","t","i","o","n",":">>
K_ok     == <<"o","k">>
K_the    == <<"t","h","e",SP,"e","n","e","r","g","y">>
K_lvl    == <<"l","e","v","e","l",SP,":">>
K_empty  == <<>>
K_crcr   == <<"o","k",CR,CR>>

BannedLines == {B_energy, B_evol, B_dim, B_emerg, B_coh, B_resil, B_intel,
                B_effic, B_integ}
CleanLines == {K_the, K_lvl, K_empty, K_crcr}

\* a text is lines joined by line feeds: some clean lines, possibly a line
\* with a banned term, possibly one more line
ValScripts ==
    {pre \o b \o post :
        pre \in SeqsUpTo(CleanLines, MaxCleanLines),
        b \in {<<>>} \cup {<<l>> : l \in BannedLines},
        post \in {<<>>, <<K_ok>>, <<B_coh>>}}

ValInit == [script |-> <<>>, text |-> <<>>, valid |-> FALSE,
            cleaned |-> <<>>, cleaned_valid |-> FALSE, recleaned |-> <<>>, returned |-> <<>>]

(***************************************************************************)
(* gather_real_time_context: its section scan and its completions          *)
(***************************************************************************)
L_MARKET == <<"M","A","R","K","E","T","_","T","R","E","N","D","S",":">>
L_TECH   == <<"T","E","C","H","_","D","E","V","E","L","O","P","M","E","N","T","S",":">>
L_EVENTS == <<"C","U","R","R","E","N","T","_","E","V","E","N","T","S",":">>
L_USER   == <<"U","S","E","R","_","I","N","T","E","R","A","C","T","I","O","N","S",":">>

\* lines 84-89: the four lists and current_section
CtxScanInit == [section |-> "", market_trends |-> <<>>,
                tech_developments |-> <<>>, current_events |-> <<>>,
                user_interactions |-> <<>>]

ctx_scan_line_blankreset(acc, t) ==
    IF t = L_MARKET THEN [acc EXCEPT !.section = "market"]
    ELSE IF t = L_TECH THEN [acc EXCEPT !.section = "tech"]
    ELSE IF t = L_EVENTS THEN [acc EXCEPT !.section = "events"]
    ELSE IF t = L_USER THEN [acc EXCEPT !.section = "interactions"]
    ELSE IF t = <<>> THEN [acc EXCEPT !.section = ""]
    ELSE IF acc.section = "market"
         THEN [acc EXCEPT !.market_trends = Append(@, t)]
    ELSE IF acc.section = "tech"
         THEN [acc EXCEPT !.tech_developments = Append(@, t)]
    ELSE IF acc.section = "events"
         THEN [acc EXCEPT !.current_events = Append(@, t)]
    ELSE IF acc.section = "interactions"
         THEN [acc EXCEPT !.user_interactions = Append(@, t)]
    ELSE acc

\* the body of the scan loop (lines 92-107) for one line, t = line.trim()
ctx_scan_line(acc, t) ==
    IF t = L_MARKET THEN [acc EXCEPT !.section = "market"]
    ELSE IF t = L_TECH THEN [acc EXCEPT !.section = "tech"]
    ELSE IF t = L_EVENTS THEN [acc EXCEPT !.section = "events"]
    ELSE IF t = L_USER THEN [acc EXCEPT !.section = "interactions"]
    ELSE IF t = <<>> THEN acc
    ELSE IF acc.section = "market"
         THEN [acc EXCEPT !.market_trends = Append(@, t)]
    ELSE IF acc.section = "tech"
         THEN [acc EXCEPT !.tech_developments = Append(@, t)]
    ELSE IF acc.section = "events"
         THEN [acc EXCEPT !.current_events = Append(@, t)]
    ELSE IF acc.section = "interactions"
         THEN [acc EXCEPT !.user_interactions = Append(@, t)]
    ELSE acc

\* for line in response.lines() { ... }
RECURSIVE ctx_scan_lines(_, _)
ctx_scan_lines(acc, ls) ==
    IF Len(ls) = 0 THEN acc
    ELSE ctx_scan_lines(ctx_scan_line(acc, trim(ls[1])), Tail(ls))

\* lines 110-118 (without the timestamp)
RealTimeContext(acc) ==
    [market_trends |-> acc.market_trends,
     current_events |-> acc.current_events,
     technological_developments |-> acc.tech_developments,
     user_interactions |-> acc.user_interactions,
     environmental_data |-> {},
     mission_progress |-> <<>>]

NoContext == [ok |-> FALSE, err |-> "pending", context |-> RealTimeContext(CtxScanInit)]

\* gen is the outcome of self.generate(&prompt).await
gather_real_time_context(gen) ==
    IF ~gen.ok THEN [NoContext EXCEPT !.err = "transport"]
    ELSE [ok |-> TRUE, err |-> "",
          context |-> RealTimeContext(ctx_scan_lines(CtxScanInit, lines(gen.body)))]

MaxCtxLines == 2

X_up    == <<"u","p",SP,"3","%">>
X_pad   == <<SP,"b",SP,SP>>
X_blank == <<SP>>
X_low   == <<"m","a","r","k","e","t","_","t","r","e","n","d","s",":">>

CtxBodies == SeqsUpTo({X_up, X_pad, X_blank, X_low}, MaxCtxLines)

CtxLabels == {L_MARKET, L_TECH, L_EVENTS, L_USER, <<SP>> \o L_EVENTS \o <<SP, CR>>}

CtxSecondBlocks ==
    {Block(L_MARKET, <<X_pad>>), Block(L_TECH, <<X_up, <<>>, X_low>>),
     Block(L_USER, <<>>), Block(L_EVENTS, <<X_blank, X_up>>)}

\* a completion: lines before the first label, a section, possibly a second
CtxScripts ==
    {Script(pre, <<Block(l, b)>> \o more) :
        pre \in {<<>>, <<X_up>>}, l \in CtxLabels, b \in CtxBodies,
        more \in Opt(CtxSecondBlocks)}
    \cup {Script(<<>>, <<>>),
          Script(<<X_low>>, <<Block(L_USER, <<X_up>>), Block(L_MARKET, <<X_pad>>),
                             Block(L_TECH, <<>>), Block(L_MARKET, <<X_blank, X_up>>),
                             Block(L_USER, <<X_low, <<>>, X_pad>>)>>)}

CtxInit == [script |-> NoScript, answered |-> FALSE, out |-> NoContext]


(***************************************************************************)
(* generate_contextual_thoughts_batch: its inputs and its completions      *)
(***************************************************************************)
MaxBatch == 2

\* the cell identities of the input list; the contexts only reach the prompt
CellIds == {"c1", "c2", "c3"}
BatchInputs == SeqsUpTo(CellIds, MaxBatch)

\* completions: two that parse and validate, one that parses with a banned
\* line, one without RELEVANCE:
G_ok  == L_THOUGHT \o <<SP>> \o W_ok \o <<SP>> \o L_RELEVANCE \o W_half
G_f   == L_THOUGHT \o <<NL>> \o W_f1 \o <<NL>> \o L_RELEVANCE \o <<SP>> \o W_high
           \o <<NL>> \o L_FACTORS \o <<NL>> \o W_f2
G_bad == L_THOUGHT \o <<NL>> \o W_f2 \o <<NL>> \o W_energy \o <<NL>>
           \o L_RELEVANCE \o <<SP>> \o W_half
G_err == L_THOUGHT \o <<SP>> \o W_ok
BatchCompletions == {G_ok, G_f, G_bad, G_err}

\* HashMap::new()
HashMapNew == [k \in {} |-> <<>>]

BatchPending == [ok |-> FALSE, err |-> "pending", results |-> HashMapNew]

BatchInit == [input |-> <<>>, pos |-> 0, attempt |-> 0, phase |-> "idle",
              outstanding |-> 0, sent |-> <<>>, done |-> <<>>, log |-> <<>>,
              results |-> HashMapNew, out |-> BatchPending]

(***************************************************************************)
(* generate_contextual_thought                                             *)
(***************************************************************************)
MaxAttempts == 3

IsLastAttempt_never(attempt) == attempt = MaxAttempts

IsLastAttempt_early(attempt) == attempt = 1

\* line 283: attempt == 2
IsLastAttempt(attempt) == attempt = 2

VARIABLES
    pc,        \* where the call stands: "idle", "thought_loop", "returned"
    attempt,   \* the loop variable of `for attempt in 0..3`
    requests,  \* transport requests the call has issued
    log,       \* per loop iteration: the transport outcome and its parse
    result,    \* what generate_contextual_thought returned
    plan_in,   \* create_plan: the thoughts passed in
    plan_gen,  \* create_plan: the transport's outcome, a completion by sections
    plan_out,  \* create_plan: what it returned
    dim,       \* evaluate_dimensional_state: the completion and the return
    val,       \* the content validator: a text and what it made of it
    ctx,       \* gather_real_time_context: the completion and the return
    batch      \* generate_contextual_thoughts_batch: its locals and return

thought_vars == <<attempt, requests, log, result>>
plan_vars == <<plan_in, plan_gen, plan_out>>
rest_vars == <<dim, val, ctx, batch>>
vars == <<pc, attempt, requests, log, result, plan_in, plan_gen, plan_out,
          dim, val, ctx, batch>>

Init ==
    /\ pc = "idle"
    /\ attempt = 0
    /\ requests = 0
    /\ log = <<>>
    /\ result = NoResult
    /\ plan_in = <<>>
    /\ plan_gen = [ok |-> FALSE, script |-> NoScript]
    /\ plan_out = NoPlanResult
    /\ dim = DimInit
    /\ val = ValInit
    /\ ctx = CtxInit
    /\ batch = BatchInit

\* a caller enters generate_contextual_thought; the prompt rendered from
\* its arguments goes to the transport and is not read again
CallThought ==
    /\ pc = "idle"
    /\ pc' = "thought_loop"
    /\ attempt' = 0
    /\ UNCHANGED <<requests, log, result, plan_vars, rest_vars>>

\* variants of ThoughtIteration with a slip in the loop's control flow
ThoughtIteration_retry_valid(r, n) ==
    IF ~r.ok THEN [ret |-> TRUE, val |-> r]
    ELSE IF IsLastAttempt(n)
    THEN [ret |-> TRUE,
          val |-> Ok3(clean_thought_content(r.thought), r.relevance,
                      r.factors)]
    ELSE [ret |-> FALSE, val |-> NoResult]

ThoughtIteration_retry_error(r, n) ==
    IF ~r.ok /\ ~IsLastAttempt(n) THEN [ret |-> FALSE, val |-> NoResult]
    ELSE IF ~r.ok THEN [ret |-> TRUE, val |-> r]
    ELSE IF validate_thought_content(r.thought)
    THEN [ret |-> TRUE, val |-> Ok3(r.thought, r.relevance, r.factors)]
    ELSE IF IsLastAttempt(n)
    THEN [ret |-> TRUE,
          val |-> Ok3(clean_thought_content(r.thought), r.relevance,
                      r.factors)]
    ELSE [ret |-> FALSE, val |-> NoResult]

\* what one iteration of the loop does with r, the result of its
\* generate_thought_internal(...).await: the `?`, the validation, the
\* last-attempt cleaning; ret = FALSE stands for falling through to the next
\* iteration
ThoughtIteration(r, n) ==
    IF ~r.ok THEN [ret |-> TRUE, val |-> r]
    ELSE IF validate_thought_content(r.thought)
    THEN [ret |-> TRUE, val |-> Ok3(r.thought, r.relevance, r.factors)]
    ELSE IF IsLastAttempt(n)
    THEN [ret |-> TRUE,
          val |-> Ok3(clean_thought_content(r.thought), r.relevance,
                      r.factors)]
    ELSE [ret |-> FALSE, val |-> NoResult]

\* the state after an iteration that decided it
ThoughtAdvance(gen, r, it) ==
    /\ UNCHANGED <<plan_vars, rest_vars>>
    /\ requests' = requests + 1
    /\ log' = Append(log, [gen |-> gen, res |-> r])
    /\ IF it.ret
       THEN /\ result' = it.val
            /\ pc' = "returned"
            /\ attempt' = attempt
       ELSE /\ attempt' = attempt + 1
            /\ UNCHANGED <<pc, result>>

ThoughtLoopBody(gen, r) == ThoughtAdvance(gen, r, ThoughtIteration(r, attempt))

\* one iteration of the loop with the transport answering gen, or, with the
\* range 0..3 exhausted, the error after the loop
ThoughtStep(gen) ==
    IF attempt < MaxAttempts
    THEN ThoughtLoopBody(gen, generate_thought_internal(gen))
    ELSE /\ result' = Err3("Failed to generate valid thought")
         /\ pc' = "returned"
         /\ UNCHANGED <<attempt, requests, log, plan_vars, rest_vars>>

\* the transport answers the request of the current iteration
ThoughtRespond ==
    /\ pc = "thought_loop"
    /\ \E c \in ThoughtCompletions : ThoughtStep(Completion(c))

\* the transport fails the request of the current iteration
ThoughtTransportFail ==
    /\ pc = "thought_loop"
    /\ ThoughtStep(TransportErr)

\* a caller enters create_plan with its thoughts; the prompt is sent
CallPlan ==
    /\ pc = "idle"
    /\ \E ts \in InputThoughts : plan_in' = ts
    /\ pc' = "plan_wait"
    /\ UNCHANGED <<thought_vars, plan_gen, plan_out, rest_vars>>

\* the transport answers and create_plan runs to its return
PlanRespond ==
    /\ pc = "plan_wait"
    /\ \E script \in PlanScripts :
          /\ plan_gen' = [ok |-> TRUE, script |-> script]
          /\ plan_out' = create_plan(Completion(Render(script)), plan_in)
    /\ pc' = "plan_returned"
    /\ UNCHANGED <<thought_vars, plan_in, rest_vars>>

\* the transport fails: the `?` of line 340
PlanTransportFail ==
    /\ pc = "plan_wait"
    /\ plan_out' = create_plan(TransportErr, plan_in)
    /\ pc' = "plan_returned"
    /\ UNCHANGED <<thought_vars, plan_in, plan_gen, rest_vars>>

\* a caller enters evaluate_dimensional_state; the prompt is sent
CallDim ==
    /\ pc = "idle"
    /\ pc' = "dim_wait"
    /\ UNCHANGED <<thought_vars, plan_vars, rest_vars>>

\* the transport answers and evaluate_dimensional_state runs to its return
DimRespond ==
    /\ pc = "dim_wait"
    /\ \E tokens \in DimScripts :
          dim' = [tokens |-> tokens, answered |-> TRUE,
                  out |-> evaluate_dimensional_state(
                              Completion(join(tokens, <<",">>)))]
    /\ pc' = "dim_returned"
    /\ UNCHANGED <<thought_vars, plan_vars, val, ctx, batch>>

\* the transport fails: the `?` of line 154
DimTransportFail ==
    /\ pc = "dim_wait"
    /\ dim' = [dim EXCEPT !.out = evaluate_dimensional_state(TransportErr)]
    /\ pc' = "dim_returned"
    /\ UNCHANGED <<thought_vars, plan_vars, val, ctx, batch>>

NextDim == CallDim \/ DimRespond \/ DimTransportFail

SpecDim == Init /\ [][NextDim]_vars

\* validate_thought_content and clean_thought_content applied to a text, and
\* the loop body of generate_contextual_thought applied to a generation whose
\* thought is that text, at each attempt
ValidateStore(script, text) ==
    val' = [script |-> script, text |-> text,
            valid |-> validate_thought_content(text),
            cleaned |-> clean_thought_content(text),
            cleaned_valid |->
                validate_thought_content(clean_thought_content(text)),
            recleaned |-> clean_thought_content(clean_thought_content(text)),
            returned |-> [n \in 1..MaxAttempts |->
                             ThoughtIteration(Ok3(text, F64Half, <<>>), n - 1)]]

ValidateText ==
    /\ pc = "idle"
    /\ \E script \in ValScripts : ValidateStore(script, join(script, <<NL>>))
    /\ pc' = "val_done"
    /\ UNCHANGED <<thought_vars, plan_vars, dim, ctx, batch>>

NextValidate == ValidateText

SpecValidate == Init /\ [][NextValidate]_vars

\* a caller enters gather_real_time_context; the prompt is sent
CallContext ==
    /\ pc = "idle"
    /\ pc' = "ctx_wait"
    /\ UNCHANGED <<thought_vars, plan_vars, rest_vars>>

\* the transport answers and gather_real_time_context runs to its return
ContextRespond ==
    /\ pc = "ctx_wait"
    /\ \E script \in CtxScripts :
          ctx' = [script |-> script, answered |-> TRUE,
                  out |-> gather_real_time_context(Completion(Render(script)))]
    /\ pc' = "ctx_returned"
    /\ UNCHANGED <<thought_vars, plan_vars, dim, val, batch>>

\* the transport fails: the `?` of line 83
ContextTransportFail ==
    /\ pc = "ctx_wait"
    /\ ctx' = [ctx EXCEPT !.out = gather_real_time_context(TransportErr)]
    /\ pc' = "ctx_returned"
    /\ UNCHANGED <<thought_vars, plan_vars, dim, val, batch>>

NextContext == CallContext \/ ContextRespond \/ ContextTransportFail

SpecContext == Init /\ [][NextContext]_vars

hashmap_insert_only(m, k, v) == [x \in {k} |-> v]

hashmap_insert_first(m, k, v) ==
    [x \in DOMAIN m \cup {k} |-> IF x \in DOMAIN m THEN m[x] ELSE v]

\* HashMap::insert: the value of an existing key is replaced
hashmap_insert(m, k, v) ==
    [x \in DOMAIN m \cup {k} |-> IF x = k THEN v ELSE m[x]]

is_err_never(v) == FALSE

\* the `?` of line 413 returns from the batch on an Err
is_err(v) == ~v.ok

AwaitPhase_none == "send"

\* .await of line 413: the batch is suspended until the request is answered
AwaitPhase == "wait"

\* line 418, and the Err the `?` returns
BatchOk(results) == [ok |-> TRUE, err |-> "", results |-> results]
BatchErr(msg) == [ok |-> FALSE, err |-> msg, results |-> HashMapNew]

\* lines 406-408 and 418: the map is created and the loop entered; with an
\* empty list the batch returns at once
batch_begin(input) ==
    [input |-> input, pos |-> IF input = <<>> THEN 0 ELSE 1, attempt |-> 0,
     phase |-> IF input = <<>> THEN "returned" ELSE "send",
     outstanding |-> 0,
     sent |-> [p \in 1..Len(input) |-> 0],
     done |-> [p \in 1..Len(input) |-> 0],
     log  |-> [p \in 1..Len(input) |-> <<>>],
     results |-> HashMapNew,
     out |-> IF input = <<>> THEN BatchOk(HashMapNew) ELSE BatchPending]

\* line 415 and the loop's next entry, or line 418 after the last entry
batch_insert(b, res) ==
    IF b.pos = Len(b.input)
    THEN [b EXCEPT !.results = res, !.phase = "returned", !.out = BatchOk(res)]
    ELSE [b EXCEPT !.results = res, !.pos = @ + 1, !.attempt = 0,
                   !.phase = "send"]

\* generate_contextual_thought's loop (lines 272-289) inside the batch, after
\* an iteration `it`, and lines 409-415 once it has returned
batch_after(b, it) ==
    IF ~it.ret
    THEN IF b.attempt + 1 < MaxAttempts
         THEN [b EXCEPT !.attempt = @ + 1, !.phase = "send"]
         ELSE [b EXCEPT !.phase = "returned",
                        !.out = BatchErr("Failed to generate valid thought")]
    ELSE IF is_err(it.val)
    THEN [b EXCEPT !.phase = "returned", !.out = BatchErr(it.val.err)]
    ELSE batch_insert(b, hashmap_insert(b.results, b.input[b.pos], <<it.val>>))

\* the request of the current iteration is answered with gen
batch_receive(b, gen) ==
    batch_after([b EXCEPT !.outstanding = @ - 1,
                          !.done[b.pos] = @ + 1,
                          !.log[b.pos] = Append(@, gen)],
                ThoughtIteration(generate_thought_internal(gen), b.attempt))

\* a caller enters generate_contextual_thoughts_batch with its list
CallBatch ==
    /\ pc = "idle"
    /\ \E input \in BatchInputs : batch' = batch_begin(input)
    /\ pc' = "batch"
    /\ UNCHANGED <<thought_vars, plan_vars, dim, val, ctx>>

\* the current iteration of the current entry sends its request (line 273)
BatchSend ==
    /\ pc = "batch"
    /\ batch.phase = "send"
    /\ batch' = [batch EXCEPT !.sent[batch.pos] = @ + 1,
                              !.outstanding = @ + 1,
                              !.phase = AwaitPhase]
    /\ UNCHANGED <<pc, thought_vars, plan_vars, dim, val, ctx>>

\* the transport answers the outstanding request
BatchRespond ==
    /\ pc = "batch"
    /\ batch.phase = "wait"
    /\ \E c \in BatchCompletions : batch' = batch_receive(batch, Completion(c))
    /\ UNCHANGED <<pc, thought_vars, plan_vars, dim, val, ctx>>

\* the transport fails the outstanding request
BatchTransportFail ==
    /\ pc = "batch"
    /\ batch.phase = "wait"
    /\ batch' = batch_receive(batch, TransportErr)
    /\ UNCHANGED <<pc, thought_vars, plan_vars, dim, val, ctx>>

NextBatch == CallBatch \/ BatchSend \/ BatchRespond \/ BatchTransportFail

SpecBatch == Init /\ [][NextBatch]_vars

NextPlan == CallPlan \/ PlanRespond \/ PlanTransportFail

SpecPlan == Init /\ [][NextPlan]_vars

NextThought == CallThought \/ ThoughtRespond \/ ThoughtTransportFail

SpecThought == Init /\ [][NextThought]_vars

\* every request of the transport is eventually answered
FairSpecThought == SpecThought /\ WF_vars(NextThought)

(***************************************************************************)
(* Properties of generate_contextual_thought                               *)
(***************************************************************************)
Returned == pc = "returned"

\* the iterations of the call whose response parsed
Parsed(i) == log[i].res.ok
\* the iterations whose parsed thought passed validation
Passed(i) == Parsed(i) /\ validate_thought_content(log[i].res.thought)

HasBannedTerm(t) ==
    \E i \in 1..Len(prohibited_terms) :
        contains(to_lowercase(t), prohibited_terms[i])

\* C1: whenever generate_contextual_thought returns successfully, the
\* returned thought contains none of the nine banned terms as a
\* case-insensitive substring.
C1_NoBannedTermReturned ==
    (Returned /\ result.ok) => ~HasBannedTerm(result.thought)

\* the degraded path was taken and cleaning removed a line and kept one
C1_Witness ==
    /\ Returned /\ result.ok /\ Len(log) = 3
    /\ HasBannedTerm(log[3].res.thought)
    /\ result.thought # <<>>

\* C2: when every attempt made parses, the result is the (thought, relevance,
\* factors) of the first attempt whose thought passes validation, unmodified;
\* if none of the three attempts passes, it is the line-cleaned thought of the
\* third attempt with the relevance and factors of that third attempt, and
\* the call succeeds.
C2_FirstValidOrCleanedThird ==
    (Returned /\ \A i \in 1..Len(log) : Parsed(i)) =>
        LET passed == {i \in 1..Len(log) : Passed(i)}
        IN  IF passed # {}
            THEN LET f == CHOOSE i \in passed : \A j \in passed : i <= j
                 IN  /\ f = Len(log)
                     /\ result = Ok3(log[f].res.thought, log[f].res.relevance,
                                     log[f].res.factors)
            ELSE /\ Len(log) = 3
                 /\ result = Ok3(clean_thought_content(log[3].res.thought),
                                 log[3].res.relevance, log[3].res.factors)

\* two rejected attempts, then a third whose thought is returned as it is,
\* with factors and a relevance that differ from the first attempt's
C2_Witness ==
    /\ Returned /\ Len(log) = 3
    /\ Parsed(1) /\ Parsed(2) /\ Passed(3)
    /\ result.thought = log[3].res.thought
    /\ result.factors # <<>>
    /\ log[1].res.relevance # result.relevance

\* C3: a call always terminates and issues at most 3 transport requests;
\* attempt n+1 is issued only if attempt n parsed and its thought failed
\* validation, and no request follows an attempt whose thought passed.
C3_BoundedAttempts ==
    /\ [](/\ requests <= 3
          /\ requests = Len(log)
          /\ \A i \in 1..(Len(log) - 1) : Parsed(i) /\ ~Passed(i)
          /\ (Returned => requests >= 1))
    /\ <>Returned

\* the call used all three requests
C3_Witness == Returned /\ requests = 3 /\ Passed(3)

\* C4: a transport error or a structural parse failure on any attempt ends
\* the call at once with that error: no further request, no result of an
\* earlier rejected attempt.
C4_ErrorEndsCall ==
    \A i \in 1..Len(log) :
        ~Parsed(i) =>
            /\ i = Len(log)
            /\ requests = i
            /\ Returned
            /\ result = Err3(log[i].res.err)
            /\ log[i].res.err \in {"transport", "Invalid response",
                                   "Missing relevance",
                                   "Invalid relevance score"}

\* a parse failure on the third attempt, after two rejected thoughts
C4_Witness ==
    /\ Returned /\ Len(log) = 3
    /\ ~Parsed(3) /\ log[3].gen.ok
    /\ ~result.ok

\* C5: a content-policy violation is never surfaced as a failure: the call
\* returns an error only if some attempt's transport request or parse failed;
\* the error after the loop is unreachable.
C5_PolicyNeverFails ==
    Returned =>
        /\ result.err # "Failed to generate valid thought"
        /\ (~result.ok => \E i \in 1..Len(log) :
                              ~Parsed(i) /\ result.err = log[i].res.err)
        /\ ((\A i \in 1..Len(log) : Parsed(i)) => result.ok)

\* three parsed attempts, all rejected by the validator, and a success
C5_Witness ==
    /\ Returned /\ Len(log) = 3 /\ result.ok
    /\ \A i \in 1..3 : Parsed(i) /\ ~Passed(i)

\* the completions laid out as the prompt prescribes, and what the claim
\* takes the parser to accept
PromptFormatted(c) ==
    \E b \in {W_ok, W_energy}, f \in {<<>>, <<W_f1, W_f2>>} :
        c = PromptFormat(b, W_half, f)

\* the number on the line after the line that holds the RELEVANCE: label
RelevanceOnNextLine(rest) ==
    LET ls == lines(rest)
    IN  IF Len(ls) < 2 THEN ParseNone ELSE parse_f64(trim(ls[2]))

ClaimedAccept(c) ==
    LET i == Find(c, L_THOUGHT)
        after == split(c, L_THOUGHT)[2]
        j == Find(after, L_RELEVANCE)
        rest == split(after, L_RELEVANCE)[2]
    IN  i # 0 /\ j # 0 /\ RelevanceOnNextLine(rest).ok

\* C6: the parser accepts a completion exactly when it holds a THOUGHT: label
\* followed by a RELEVANCE: label and the line immediately following the
\* RELEVANCE: label holds a parsable number, which it returns as the
\* relevance; in particular a completion laid out as the prompt instructs
\* parses successfully.
C6_ParserAcceptsPromptFormat ==
    \A i \in 1..Len(log) :
        log[i].gen.ok =>
            /\ ClaimedAccept(log[i].gen.body) => Parsed(i)
            /\ PromptFormatted(log[i].gen.body) => Parsed(i)

InUnit(x) == x.k = "fin" /\ 0 <= x.m /\ x.m <= Pow10(x.e)

\* C10: the relevance of every thought returned by
\* generate_contextual_thought lies in [0,1], whatever number the model
\* writes after RELEVANCE:.
C10_RelevanceInUnit ==
    (Returned /\ result.ok) => InUnit(result.relevance)

(***************************************************************************)
(* Properties of create_plan                                               *)
(***************************************************************************)
PlanReturned == pc = "plan_returned" /\ plan_gen.ok

\* the node lines of the vocabulary that the format accepts, with the title
\* each carries
ValidNodeLines == {N_ok, N_high, N_neg, N_soon, N_four, N_nan}
TitleOf(l) ==
    CASE l = N_ok   -> <<"1",".",SP,"A">>
      [] l = N_high -> <<"B">>
      [] l = N_neg  -> <<"C">>
      [] l = N_soon -> <<"D">>
      [] l = N_four -> <<"E">>
      [] l = N_nan  -> <<"H">>

IsValidNodeLine(l) == l \in ValidNodeLines
BodyTitles(body) ==
    LET valid == SelectSeq(body, IsValidNodeLine)
    IN  [i \in 1..Len(valid) |-> TitleOf(valid[i])]

\* the titles of the valid node lines of the NODES sections, in order
RECURSIVE ExpectedTitles(_)
ExpectedTitles(blocks) ==
    IF Len(blocks) = 0 THEN <<>>
    ELSE (IF trim(blocks[1].label) = L_NODES
          THEN BodyTitles(blocks[1].body) ELSE <<>>)
         \o ExpectedTitles(Tail(blocks))

DefaultTitles ==
    << <<"I","n","i","t","i","a","l",SP,"A","n","a","l","y","s","i","s">>,
       <<"I","m","p","l","e","m","e","n","t","a","t","i","o","n",SP,"S","t","r","a","t","e","g","y">>,
       <<"V","a","l","i","d","a","t","i","o","n",SP,"a","n","d",SP,"R","e","v","i","e","w">> >>

PhaseTitle(i) == <<"P","h","a","s","e",SP>> \o <<DigitChars[i + 1]>>

\* C7: every Plan returned by create_plan has at least 3 nodes.  With v valid
\* node lines in the NODES section: v = 0 yields exactly the 3 default nodes,
\* the first referencing the final summary; v = 1 or 2 yields the v parsed
\* nodes in order, then padding nodes up to exactly 3; v >= 3 yields exactly
\* the v parsed nodes in order.
C7_AtLeastThreeNodes ==
    PlanReturned =>
        LET exp    == ExpectedTitles(plan_gen.script.blocks)
            v      == Len(exp)
            nodes  == plan_out.plan.nodes
            titles == [i \in 1..Len(nodes) |-> nodes[i].title]
        IN  /\ plan_out.ok
            /\ Len(nodes) >= 3
            /\ v = 0 => /\ titles = DefaultTitles
                        /\ contains(nodes[1].description, plan_out.plan.summary)
                        /\ Len(nodes[1].description) > Len(plan_out.plan.summary)
            /\ v \in {1, 2} =>
                   /\ Len(nodes) = 3
                   /\ SubSeq(titles, 1, v) = exp
                   /\ \A i \in (v + 1)..3 : titles[i] = PhaseTitle(i)
            /\ v >= 3 => titles = exp

\* two parsed nodes and one padding node
C7_Witness ==
    /\ PlanReturned
    /\ Len(ExpectedTitles(plan_gen.script.blocks)) = 2
    /\ Len(plan_out.plan.nodes) = 3
    /\ plan_out.plan.nodes[3].title = PhaseTitle(3)

HasSummaryLine(blocks) ==
    \E i \in 1..Len(blocks) :
        /\ trim(blocks[i].label) = L_SUMMARY
        /\ \E k \in 1..Len(blocks[i].body) : blocks[i].body[k] \in {S_a, S_b}

HasScoreNumber(blocks) ==
    \E i \in 1..Len(blocks) :
        /\ trim(blocks[i].label) = L_SCORE
        /\ \E k \in 1..Len(blocks[i].body) :
              blocks[i].body[k] \in {V_07, V_025, V_high, V_neg}

\* C8: once the transport has returned a completion, create_plan never
\* fails: without a non-blank SUMMARY line the summary is "Plan based on
\* collected thoughts", without a SCORE line that parses as a number the score
\* is 0.5, the status is Proposed and the thoughts are the input thoughts.
C8_NeverFailsDefaults ==
    PlanReturned =>
        /\ plan_out.ok
        /\ ~HasSummaryLine(plan_gen.script.blocks) =>
               plan_out.plan.summary = DefaultSummary
        /\ ~HasScoreNumber(plan_gen.script.blocks) =>
               plan_out.plan.score = F64Half
        /\ plan_out.plan.status = "Proposed"
        /\ plan_out.plan.thoughts = plan_in

\* a SUMMARY section with a blank line only and a SCORE section whose lines
\* do not parse, with thoughts passed in
C8_Witness ==
    /\ PlanReturned
    /\ plan_in # <<>>
    /\ \E i \in 1..Len(plan_gen.script.blocks) :
          plan_gen.script.blocks[i] = Block(L_SUMMARY, <<S_blank>>)
    /\ \E i \in 1..Len(plan_gen.script.blocks) :
          plan_gen.script.blocks[i].body = <<V_word>>
    /\ plan_out.plan.summary = DefaultSummary
    /\ plan_out.plan.score = F64Half

\* C9: the score of every Plan returned by create_plan lies in [0,1], for
\* every completion.
C9_ScoreInUnit ==
    (PlanReturned /\ plan_out.ok) => InUnit(plan_out.plan.score)

\* the lines of all the sections opened by one label, in order
RECURSIVE SectionLines(_, _)
SectionLines(blocks, label) ==
    IF Len(blocks) = 0 THEN <<>>
    ELSE (IF trim(blocks[1].label) = label THEN blocks[1].body ELSE <<>>)
         \o SectionLines(Tail(blocks), label)

\* the vocabulary's lines: which are blank, which are numbers, and what each
\* holds between its surrounding blanks
IsContentLine(l) == l \notin {<<>>, S_blank}
IsNumberLine(l) == l \in {V_07, V_025, V_high, V_neg}
ContentOf(l) ==
    CASE l = V_025 -> <<"0",".","2","5">>
      [] l = N_neg -> <<"C",SP,"|",SP,"x",SP,"|","-","0",".","3">>
      [] OTHER     -> l
NumberOf(l) ==
    CASE l = V_07   -> Normal(7, 1)
      [] l = V_025  -> Normal(25, 2)
      [] l = V_high -> Normal(15, 1)
      [] l = V_neg  -> Normal(-3, 1)

Last(seq) == seq[Len(seq)]

\* C19: in create_plan's scan the summary and the score are last-writer-wins
\* and the nodes accumulate: the summary is the last non-blank non-label line
\* seen in a SUMMARY section, the score is the last line that parses as a
\* number in a SCORE section, node lines are collected in order from every
\* NODES section, and lines before any label change nothing.
C19_LastWriterWins ==
    PlanReturned =>
        LET blocks == plan_gen.script.blocks
            sums   == SelectSeq(SectionLines(blocks, L_SUMMARY), IsContentLine)
            nums   == SelectSeq(SectionLines(blocks, L_SCORE), IsNumberLine)
            exp    == ExpectedTitles(blocks)
            nodes  == plan_out.plan.nodes
        IN  /\ plan_out.ok
            /\ plan_out.plan.summary =
                   IF Len(sums) = 0 THEN DefaultSummary ELSE ContentOf(Last(sums))
            /\ plan_out.plan.score =
                   IF Len(nums) = 0 THEN F64Half ELSE NumberOf(Last(nums))
            /\ Len(exp) > 0 =>
                   /\ Len(nodes) >= Len(exp)
                   /\ \A i \in 1..Len(exp) : nodes[i].title = exp[i]

\* two SUMMARY sections and two score numbers, the later ones returned, with
\* nodes from two NODES sections
C19_Witness ==
    /\ PlanReturned
    /\ Len(SelectSeq(plan_gen.script.blocks,
                     LAMBDA b : b.label = L_NODES /\ b.body # <<>>)) = 2
    /\ SelectSeq(SectionLines(plan_gen.script.blocks, L_SUMMARY), IsContentLine)
           = <<S_a, S_b>>
    /\ SelectSeq(SectionLines(plan_gen.script.blocks, L_SCORE), IsNumberLine)
           = <<V_07, V_025>>
    /\ plan_out.plan.summary = S_b
    /\ plan_out.plan.score = Normal(25, 2)

(***************************************************************************)
(* Properties of evaluate_dimensional_state                                *)
(***************************************************************************)
DimReturned == pc = "dim_returned" /\ dim.answered

\* the tokens of the vocabulary that are numbers, with their values
IsNumericToken(t) == t \in {D_half, D_neg, D_exp}
DimValueOf(t) ==
    CASE t = D_half -> Normal(5, 1)
      [] t = D_neg  -> Normal(-2, 1)
      [] t = D_exp  -> Normal(10, 0)

\* C11: dimensional-evaluation parsing succeeds if and only if exactly two
\* numeric tokens remain after splitting on commas, trimming and discarding
\* the tokens that are no number, and then returns those two values in their
\* original order; otherwise it fails with a format error.
C11_ExactlyTwoNumbers ==
    DimReturned =>
        LET nums == SelectSeq(dim.tokens, IsNumericToken)
        IN  /\ dim.out.ok <=> Len(nums) = 2
            /\ dim.out.ok =>
                   dim.out.values = <<DimValueOf(nums[1]), DimValueOf(nums[2])>>
            /\ ~dim.out.ok => dim.out.err = "Invalid response format from model"

\* two different numbers around a discarded token
C11_Witness ==
    /\ DimReturned /\ dim.out.ok
    /\ Len(dim.tokens) = 3 /\ dim.tokens[2] = D_word
    /\ dim.out.values = <<Normal(-2, 1), Normal(5, 1)>>

(***************************************************************************)
(* Properties of parse_plan_node                                           *)
(***************************************************************************)
\* C12: a NODES line becomes a node iff it has at least 3 '|' parts with a
\* non-empty title and description; the estimate is the third part parsed
\* (0.0 when unparsable) and clamped into [0,1]; every node of every returned
\* Plan has an estimate in [0,1], status Pending and no dependencies.
C12_NodeEstimatesInUnit ==
    (PlanReturned /\ plan_out.ok) =>
        \A i \in 1..Len(plan_out.plan.nodes) :
            /\ InUnit(plan_out.plan.nodes[i].estimated_completion)
            /\ plan_out.plan.nodes[i].status = "Pending"
            /\ plan_out.plan.nodes[i].dependencies = <<>>

(***************************************************************************)
(* Properties of the content validator                                     *)
(***************************************************************************)
ValDone == pc = "val_done"

IsBannedLine(l) == l \in BannedLines

\* C15: validate_thought_content rejects a text if and only if, compared
\* case-insensitively, it contains at least one of the nine banned
\* substrings; a text free of all of them is accepted and returned unchanged
\* by generate_contextual_thought.
C15_RejectsIffBanned ==
    ValDone =>
        /\ val.valid <=> ~ \E i \in 1..Len(val.script) : IsBannedLine(val.script[i])
        /\ val.valid =>
               \A n \in 1..MaxAttempts :
                   /\ val.returned[n].ret
                   /\ val.returned[n].val.ok
                   /\ val.returned[n].val.thought = val.text

\* a text of several lines whose only banned term is in capitals
C15_Witness ==
    /\ ValDone
    /\ Len(val.script) = 3 /\ val.script[3] = B_resil
    /\ ~IsBannedLine(val.script[1]) /\ ~IsBannedLine(val.script[2])
    /\ ~val.valid

\* a text whose lines put "energy" and "level" next to each other across a
\* line break, accepted and returned as it is
C15_WitnessAccepted ==
    /\ ValDone
    /\ val.script = <<K_the, K_lvl>>
    /\ val.valid
    /\ val.returned[1].val.thought = val.text

\* what a line of the vocabulary holds once a line feed ends it: of a
\* carriage return and line feed pair, the carriage return belongs to the
\* line ending
TerminatedContent(l) == IF l = K_crcr THEN <<"o","k",CR>> ELSE l

\* the lines of the text made of the script's lines: a line feed ends a line
\* and begins no empty last line
InputLines(script) ==
    LET n == Len(script)
        m == IF n > 0 /\ script[n] = <<>> THEN n - 1 ELSE n
    IN  [i \in 1..m |-> IF i < n THEN TerminatedContent(script[i]) ELSE script[i]]

IsKeptLine(l) == ~IsBannedLine(l)
ExpectedKept(script) == SelectSeq(InputLines(script), IsKeptLine)

\* C16 as stated: clean_thought_content returns exactly the input's lines that
\* pass validation, in order and unchanged, joined by newlines; the cleaned
\* text always passes validation; and cleaning a cleaned text returns it
\* unchanged.
C16_CleanIdempotent ==
    ValDone =>
        /\ val.cleaned = join(ExpectedKept(val.script), <<NL>>)
        /\ val.cleaned_valid
        /\ val.recleaned = val.cleaned

\* a cleaned text that cleaning leaves as it is: it does not end with a line
\* feed and holds no carriage return
CleanedStable(t) ==
    /\ Len(t) > 0 => t[Len(t)] # NL
    /\ \A i \in 1..Len(t) : t[i] # CR

\* C16 (amended): clean_thought_content returns exactly the input's lines
\* that pass validation, in order and unchanged, joined by newlines; the
\* cleaned text always passes validation; cleaning a cleaned text returns it
\* unchanged whenever the cleaned text does not end with a line feed and holds
\* no carriage return.
C16_CleanSubsequence ==
    ValDone =>
        /\ val.cleaned = join(ExpectedKept(val.script), <<NL>>)
        /\ val.cleaned_valid
        /\ CleanedStable(val.cleaned) => val.recleaned = val.cleaned

\* three lines, the second with a banned term: the first and third are kept
C16_Witness ==
    /\ ValDone
    /\ Len(val.script) = 3
    /\ IsBannedLine(val.script[2])
    /\ val.cleaned = val.script[1] \o <<NL>> \o val.script[3]
    /\ Len(val.script[1]) > 0 /\ Len(val.script[3]) > 0
    /\ val.recleaned = val.cleaned

(***************************************************************************)
(* Properties of gather_real_time_context                                  *)
(***************************************************************************)
CtxReturned == pc = "ctx_returned" /\ ctx.answered

\* the vocabulary's lines: which are blank, and what each holds between its
\* surrounding blanks
IsCtxContentLine(l) == l \notin {<<>>, X_blank}
CtxContentOf(l) == IF l = X_pad THEN <<"b">> ELSE l

\* the entries expected in the list of one label
CtxExpected(blocks, label) ==
    LET ls == SelectSeq(SectionLines(blocks, label), IsCtxContentLine)
    IN  [i \in 1..Len(ls) |-> CtxContentOf(ls[i])]

\* C17: the context-gathering scan never fails structurally; each non-blank
\* non-label line goes into exactly one list, the one of the most recently
\* seen section label, in order; blank lines add nothing and keep the section;
\* lines before the first label are dropped; a section whose label never
\* appears is empty; environment data and mission progress are empty.
C17_SectionScan ==
    CtxReturned =>
        LET blocks == ctx.script.blocks
            c      == ctx.out.context
        IN  /\ ctx.out.ok
            /\ c.market_trends = CtxExpected(blocks, L_MARKET)
            /\ c.technological_developments = CtxExpected(blocks, L_TECH)
            /\ c.current_events = CtxExpected(blocks, L_EVENTS)
            /\ c.user_interactions = CtxExpected(blocks, L_USER)
            /\ Len(c.market_trends) + Len(c.technological_developments)
                   + Len(c.current_events) + Len(c.user_interactions)
               = Len(SelectSeq(ScriptLines(blocks),
                               LAMBDA l : IsCtxContentLine(l) /\ trim(l) \notin CtxLabels))
            /\ c.environmental_data = {}
            /\ c.mission_progress = <<>>

\* a line before the first label, sections out of the prompt's order and
\* repeated, blank lines inside a section, and a label that never appears
C17_Witness ==
    /\ CtxReturned
    /\ ctx.script.pre = <<X_low>>
    /\ Len(ctx.script.blocks) = 5
    /\ ctx.out.context.market_trends = << <<"b">>, X_up >>
    /\ ctx.out.context.user_interactions = << X_up, X_low, <<"b">> >>
    /\ ctx.out.context.current_events = <<>>

(***************************************************************************)
(* Properties of generate_contextual_thoughts_batch                        *)
(***************************************************************************)
BatchReturned == pc = "batch" /\ batch.phase = "returned"

\* what a standalone generate_contextual_thought call returns when the
\* transport answers its requests with gens, from attempt n on
RECURSIVE Standalone(_, _)
Standalone(gens, n) ==
    IF Len(gens) = 0 \/ n >= MaxAttempts THEN NoResult
    ELSE LET it == ThoughtIteration(generate_thought_internal(gens[1]), n)
         IN  IF it.ret THEN it.val ELSE Standalone(Tail(gens), n + 1)

\* the standalone result for the completions the entry at position p received
EntryResult(p) == Standalone(batch.log[p], 0)

Positions == 1..Len(batch.input)
PairwiseDistinct(ids) ==
    \A p, q \in 1..Len(ids) : ids[p] = ids[q] => p = q
LastPositionOf(id) ==
    CHOOSE p \in Positions :
        /\ batch.input[p] = id
        /\ \A q \in Positions : batch.input[q] = id => q <= p

\* C13 as stated: for a list of N pairs whose generations all succeed the
\* batch returns a mapping with exactly N keys, each holding a
\* single-element list with the result a standalone call would return.
C13_ExactlyNKeys ==
    (BatchReturned /\ \A p \in Positions : EntryResult(p).ok) =>
        /\ batch.out.ok
        /\ Cardinality(DOMAIN batch.out.results) = Len(batch.input)
        /\ \A p \in Positions :
               batch.out.results[batch.input[p]] = <<EntryResult(p)>>

\* C13 (amended): for a list of N pairs with pairwise distinct identities
\* whose generations all succeed the batch returns a mapping with exactly N
\* keys, each holding a single-element list with the result a standalone call
\* would return for that identity given the same completions.
C13_NKeysWhenDistinct ==
    (BatchReturned /\ PairwiseDistinct(batch.input)
        /\ \A p \in Positions : EntryResult(p).ok) =>
        /\ batch.out.ok
        /\ DOMAIN batch.out.results = {batch.input[p] : p \in Positions}
        /\ Cardinality(DOMAIN batch.out.results) = Len(batch.input)
        /\ \A p \in Positions :
               batch.out.results[batch.input[p]] = <<EntryResult(p)>>

\* two identities: the first gets its thought on the first attempt, the
\* second after two rejected attempts and a cleaned third
C13_Witness ==
    /\ BatchReturned /\ batch.out.ok
    /\ batch.input = <<"c1", "c2">>
    /\ Len(batch.log[1]) = 1 /\ Len(batch.log[2]) = 3
    /\ batch.out.results["c1"][1].thought = W_f1
    /\ batch.out.results["c2"][1].thought = W_f2

\* the entry at position p has returned an error
EntryFailed(p) ==
    /\ ~EntryResult(p).ok
    /\ EntryResult(p).err # "pending"

\* C14: the first per-identity generation that fails makes the whole batch
\* return that error: no request is issued for any later identity of the
\* list, and none of the results collected before is returned.
C14_FailFast ==
    pc = "batch" =>
        \A p \in Positions :
            EntryFailed(p) =>
                /\ batch.phase = "returned"
                /\ ~batch.out.ok
                /\ batch.out.err = EntryResult(p).err
                /\ DOMAIN batch.out.results = {}
                /\ \A q \in Positions :
                       q > p => batch.sent[q] = 0 /\ batch.log[q] = <<>>

\* the first identity is answered without RELEVANCE: on its second attempt; a
\* second identity is in the list and never gets a request
C14_Witness ==
    /\ BatchReturned
    /\ Len(batch.input) = 2
    /\ Len(batch.log[1]) = 2
    /\ batch.log[1][2] = Completion(G_err)
    /\ batch.sent = <<2, 0>>
    /\ ~batch.out.ok

\* an earlier identity's result was collected and is not returned
C14_WitnessCollected ==
    /\ BatchReturned
    /\ Len(batch.input) = 2
    /\ DOMAIN batch.results # {}
    /\ EntryFailed(2)
    /\ DOMAIN batch.out.results = {}

RECURSIVE SumSeq(_)
SumSeq(ns) == IF Len(ns) = 0 THEN 0 ELSE ns[1] + SumSeq(Tail(ns))

\* the requests sent for one identity, over all its positions in the list
RequestsFor(id) ==
    SumSeq([p \in Positions |-> IF batch.input[p] = id THEN batch.sent[p] ELSE 0])

\* every request of an earlier position completes before a later position
\* sends one, and at most one request is outstanding
Sequential ==
    /\ batch.outstanding <= 1
    /\ \A p, q \in Positions :
           (p < q /\ batch.sent[q] > 0) => batch.done[p] = batch.sent[p]

\* C18 as stated: the batch is strictly sequential, at most one request is
\* outstanding at any time, each identity receives between 1 and 3 requests,
\* and a batch of N entries sends at most 3N requests.
C18_StrictlySequential ==
    pc = "batch" =>
        /\ Sequential
        /\ BatchReturned =>
               \A p \in Positions :
                   /\ RequestsFor(batch.input[p]) >= 1
                   /\ RequestsFor(batch.input[p]) <= MaxAttempts
        /\ SumSeq(batch.sent) <= MaxAttempts * Len(batch.input)

\* C18 (amended): the batch is strictly sequential, at most one request is
\* outstanding at any time, each list entry up to and including the first
\* failing one (every entry when none fails) receives between 1 and 3
\* requests, later entries receive none, and a batch of N entries sends at
\* most 3N requests.
C18_SequentialPerEntry ==
    pc = "batch" =>
        /\ Sequential
        /\ \A p \in Positions : batch.sent[p] <= MaxAttempts
        /\ BatchReturned =>
               \A p \in Positions :
                   /\ p <= batch.pos => batch.sent[p] >= 1
                   /\ (\E q \in Positions : q < p /\ EntryFailed(q)) <=>
                          batch.sent[p] = 0
        /\ SumSeq(batch.sent) <= MaxAttempts * Len(batch.input)

\* three requests for the first entry, then two for the second
C18_Witness ==
    /\ BatchReturned /\ batch.out.ok
    /\ batch.sent = <<3, 2>>
    /\ batch.done = <<3, 2>>
    /\ batch.outstanding = 0

\* C20: when an identity occurs more than once in the list, generation is
\* still run once per occurrence, in list order; the returned mapping keeps
\* the result of the last occurrence only; the number of keys is the number
\* of distinct identities; every stored list has exactly one element.
C20_LastOccurrenceWins ==
    (BatchReturned /\ batch.out.ok) =>
        LET ids == {batch.input[p] : p \in Positions}
        IN  /\ \A p \in Positions :
                   /\ EntryResult(p).ok
                   /\ batch.sent[p] = Len(batch.log[p])
                   /\ batch.sent[p] >= 1
            /\ Sequential
            /\ DOMAIN batch.out.results = ids
            /\ \A id \in ids :
                   /\ Len(batch.out.results[id]) = 1
                   /\ batch.out.results[id][1] = EntryResult(LastPositionOf(id))

\* the same identity twice with different thoughts: the second is returned
C20_Witness ==
    /\ BatchReturned /\ batch.out.ok
    /\ batch.input = <<"c1", "c1">>
    /\ EntryResult(1).thought = W_ok
    /\ EntryResult(2).thought = W_f1
    /\ batch.out.results["c1"][1].thought = W_f1

====
